---- MODULE Spec2Model ----
(***************************************************************************)
(* Priority-driven entity / relationship merge engine.                     *)
(*                                                                         *)
(*   src/priority_entity_manager.py   PriorityEntityManager                *)
(*   src/custom_operate.py            extract_entities_with_priority,      *)
(*                                    merge_nodes_and_edges_with_priority, *)
(*                                    _process_merged_data, _merge_*       *)
(*                                                                         *)
(* Conventions of the model                                                *)
(*   - A Python dict with string keys is a TLA+ function (record); a key   *)
(*     that is absent is absent from DOMAIN, and dict.get is Get.          *)
(*   - A Python dict whose iteration order matters (maybe_nodes,           *)
(*     maybe_edges, all_nodes, all_edges) is a sequence of [key, val]      *)
(*     items in insertion order, keys distinct.                            *)
(*   - Mention dicts are objects on a heap (objs); lists hold references   *)
(*     to them, so that in-place assignments (entity['priority'] = ...,    *)
(*     base_entity['description'] = ...) are visible through every alias.  *)
(*   - A float x is held as the integer 200 * x (fixed point, see Real).   *)
(*   - The entity-type labels of the source are Chinese strings; the       *)
(*     model uses the English glosses of the specification:                *)
(*     device, fault, time, cause, measure, person, area.                  *)
(***************************************************************************)
EXTENDS Integers, Sequences, FiniteSets, TLC

VARIABLES
    priority_manager,   \* the PriorityEntityManager instance (its two tables)
    extraction,         \* what extract_entities returns for the batch (values)
    entity_types,       \* global_config["addon_params"]["entity_types"]
    objs,               \* heap: reference -> mention dict
    chunk_results,      \* processed_results: per chunk (weighted_nodes, filtered_edges)
    entities_data,      \* canonical entity list (references)
    relationships_data, \* canonical relationship list (references)
    graph_nodes,        \* knowledge_graph_inst: node id -> node data
    graph_edges,        \* knowledge_graph_inst: <<src, tgt>> -> edge data
    entity_vdb,         \* entity vector storage: id -> document
    relationships_vdb,  \* relationship vector storage: id -> document
    sink_log,           \* the calls made on the storages, in order
    clock,              \* int(time.time()) of the current run
    previous,           \* canonical lists (by value) of the run before this one
    pc                  \* position of the batch in the pipeline

vars == <<priority_manager, extraction, entity_types, objs, chunk_results,
          entities_data, relationships_data, graph_nodes, graph_edges,
          entity_vdb, relationships_vdb, sink_log, clock, previous, pc>>

----------------------------------------------------------------------------
(* Python built-ins *)

\* dict.get(k, default)
Get(d, k, default) == IF k \in DOMAIN d THEN d[k] ELSE default

\* d[k] = v on a dict: adds the key when it is absent
SetField(d, k, v) == [f \in DOMAIN d \cup {k} |-> IF f = k THEN v ELSE d[f]]

\* abs()
Abs(n) == IF n < 0 THEN 0 - n ELSE n

Range(s) == {s[i] : i \in DOMAIN s}

\* a < b for two tuples of numbers of the same length, as Python compares them
TupleLess(a, b) ==
    \E i \in DOMAIN a : a[i] < b[i] /\ \A j \in 1..(i - 1) : a[j] = b[j]

\* sorted(s, key=...): a stable sort; keys[i] is the key of s[i], a tuple of
\* numbers.  The element at rank r is the one with r - 1 elements before it,
\* an element of equal key counting as before when it stands earlier in s.
StableSort(s, keys) ==
    LET n == Len(s)
        before(j, i) == TupleLess(keys[j], keys[i]) \/ (keys[j] = keys[i] /\ j < i)
        rank(i) == Cardinality({j \in 1..n : before(j, i)}) + 1
    IN  [r \in 1..n |-> s[CHOOSE i \in 1..n : rank(i) = r]]

\* min(s, key=...) and max(s, key=...) over a non-empty list: the first
\* element, in list order, whose key is minimal / maximal; keys[i] is the
\* key of s[i], a number.
MinBy(s, keys) ==
    s[CHOOSE i \in 1..Len(s) :
          /\ \A j \in 1..Len(s) : keys[i] <= keys[j]
          /\ \A j \in 1..(i - 1) : keys[j] > keys[i]]

MaxBy(s, keys) ==
    s[CHOOSE i \in 1..Len(s) :
          /\ \A j \in 1..Len(s) : keys[i] >= keys[j]
          /\ \A j \in 1..(i - 1) : keys[j] < keys[i]]

\* min / max of a non-empty collection of numbers
MinOf(S) == CHOOSE m \in S : \A n \in S : m <= n
MaxOf(S) == CHOOSE m \in S : \A n \in S : m >= n

\* sep.join(list of strings)
RECURSIVE Join(_, _)
Join(sep, s) ==
    IF Len(s) = 0 THEN ""
    ELSE IF Len(s) = 1 THEN s[1]
    ELSE s[1] \o sep \o Join(sep, Tail(s))

\* Floats in fixed point: the float n / d is held as 200 * n / d.  Every
\* value the model computes (type weights, their half sums, relationship
\* weights given in tenths) is a multiple of 1/200, so the arithmetic is exact.
Real(n, d) == (n * 200) \div d
FMul(x, y) == (x * y) \div 200
FDiv(x, y) == (x * 200) \div y

----------------------------------------------------------------------------
(* PriorityEntityManager *)

\* PriorityEntityManager.__init__: the four-tier table and the weight table
DefaultManager ==
    [priority_config |->
        (1 :> <<"device", "fault", "time">> @@ 2 :> <<"cause", "measure">> @@
         3 :> <<"person">> @@ 4 :> <<"area">>),
     entity_weights |->
        [device |-> Real(10, 1), fault |-> Real(9, 1), time |-> Real(8, 1),
         cause |-> Real(7, 1), measure |-> Real(6, 1), person |-> Real(5, 1),
         area |-> Real(4, 1)]]

\* a manager whose two tables have been emptied
EmptyManager ==
    [priority_config |-> [p \in {} |-> <<>>], entity_weights |-> [t \in {} |-> 0]]

\* the tiers the prompt text of extract_entities_with_priority subscripts
PromptTiers == {1, 2, 3, 4}

\* the priority of a type that no tier lists
UnknownPriority == 999

\* variant: the tiers are taken from the highest key down
RECURSIVE ConcatTiers_descending(_, _)
ConcatTiers_descending(config, keys) ==
    IF keys = {} THEN <<>>
    ELSE LET k == MaxOf(keys)
         IN  config[k] \o ConcatTiers_descending(config, keys \ {k})

\* concatenation of the tier lists, tiers in the order of keys
RECURSIVE ConcatTiers(_, _)
ConcatTiers(config, keys) ==
    IF keys = {} THEN <<>>
    ELSE LET k == MinOf(keys)
         IN  config[k] \o ConcatTiers(config, keys \ {k})

get_priority_entities(pm) ==
    ConcatTiers(pm.priority_config, DOMAIN pm.priority_config)

\* the first tier, in the order the table was filled (ascending), listing the type
get_entity_priority(pm, entity_type) ==
    LET hits == {p \in DOMAIN pm.priority_config :
                    entity_type \in Range(pm.priority_config[p])}
    IN  IF hits # {} THEN MinOf(hits) ELSE UnknownPriority

\* variant: a type without a configured weight weighs nothing
get_entity_weight_zero(pm, entity_type) == Get(pm.entity_weights, entity_type, 0)

get_entity_weight(pm, entity_type) ==
    Get(pm.entity_weights, entity_type, Real(1, 1))

\* variant: only a strictly smaller difference admits the pair
should_create_relationship_strict(pm, source_type, target_type) ==
    Abs(get_entity_priority(pm, source_type) - get_entity_priority(pm, target_type)) < 1

should_create_relationship(pm, source_type, target_type) ==
    LET source_priority == get_entity_priority(pm, source_type)
        target_priority == get_entity_priority(pm, target_type)
    IN  Abs(source_priority - target_priority) <= 1

\* variant: the bonus is not scaled down by 10
calculate_relationship_weight_unscaled(pm, source_type, target_type, base_weight) ==
    FMul(base_weight,
         (get_entity_weight(pm, source_type) + get_entity_weight(pm, target_type)) \div 2)

\* variant: the base weight is divided by the bonus
calculate_relationship_weight_inverse(pm, source_type, target_type, base_weight) ==
    LET source_weight == get_entity_weight(pm, source_type)
        target_weight == get_entity_weight(pm, target_type)
        priority_bonus == (source_weight + target_weight) \div 2
    IN  FDiv(FMul(base_weight, Real(10, 1)), priority_bonus)

calculate_relationship_weight(pm, source_type, target_type, base_weight) ==
    LET source_weight == get_entity_weight(pm, source_type)
        target_weight == get_entity_weight(pm, target_type)
        priority_bonus == (source_weight + target_weight) \div 2
    IN  FDiv(FMul(base_weight, priority_bonus), Real(10, 1))

----------------------------------------------------------------------------
(* Entity names *)

Names == {"M1", "overheat"}

\* the order of the names as Python compares strings
NameRank(name) == IF name = "M1" THEN 1 ELSE 2

----------------------------------------------------------------------------
(* Ordered dicts and the heap *)

DictKeys(d) == {d[k].key : k \in DOMAIN d}

\* d[key] for a key of the dict
DictGet(d, key) == d[CHOOSE k \in DOMAIN d : d[k].key = key].val

\* variant: every extend opens a new item, also for a key the dict holds
DictExtend_append(d, key, items) == Append(d, [key |-> key, val |-> items])

\* d[key].extend(items) on a defaultdict(list): a new key goes last
DictExtend(d, key, items) ==
    IF key \in DictKeys(d)
    THEN [k \in DOMAIN d |->
            IF d[k].key = key THEN [key |-> key, val |-> d[k].val \o items]
            ELSE d[k]]
    ELSE Append(d, [key |-> key, val |-> items])

\* A reference to the i-th mention under the k-th key of the nodes ("n") or
\* edges ("e") dict of chunk c of the extraction result.
NodeRefs(ex, c) ==
    UNION {{<<c, "n", k, i>> : i \in 1..Len(ex[c].nodes[k].val)} :
              k \in 1..Len(ex[c].nodes)}

EdgeRefs(ex, c) ==
    UNION {{<<c, "e", k, i>> : i \in 1..Len(ex[c].edges[k].val)} :
              k \in 1..Len(ex[c].edges)}

\* The objects of an extraction result: one dict per mention.
NewObjs(ex) ==
    [r \in UNION {NodeRefs(ex, c) \cup EdgeRefs(ex, c) : c \in 1..Len(ex)} |->
        IF r[2] = "n" THEN ex[r[1]].nodes[r[3]].val[r[4]]
        ELSE ex[r[1]].edges[r[3]].val[r[4]]]

\* The (maybe_nodes, maybe_edges) pairs of an extraction result, their lists
\* holding references to the objects.
NewResults(ex) ==
    [c \in 1..Len(ex) |->
        [nodes |-> [k \in 1..Len(ex[c].nodes) |->
                      [key |-> ex[c].nodes[k].key,
                       val |-> [i \in 1..Len(ex[c].nodes[k].val) |-> <<c, "n", k, i>>]]],
         edges |-> [k \in 1..Len(ex[c].edges) |->
                      [key |-> ex[c].edges[k].key,
                       val |-> [i \in 1..Len(ex[c].edges[k].val) |-> <<c, "e", k, i>>]]]]]

\* the references a dict holds
DictRefs(d) == UNION {Range(d[k].val) : k \in DOMAIN d}

----------------------------------------------------------------------------
(* extract_entities_with_priority: post-processing of the extraction result *)

\* variant: the type is looked up among the mentions of every chunk
_get_entity_type_any_chunk(h, entity_name, nodes_dict) ==
    LET found == {r \in DOMAIN h :
                     r[2] = "n" /\ Get(h[r], "entity_name", "") = entity_name}
    IN  IF found # {}
        THEN Get(h[CHOOSE r \in found : \A q \in found : r[1] >= q[1]], "entity_type", "")
        ELSE ""

_get_entity_type(h, entity_name, nodes_dict) ==
    IF entity_name \in DictKeys(nodes_dict) /\ Len(DictGet(nodes_dict, entity_name)) > 0
    THEN Get(h[DictGet(nodes_dict, entity_name)[1]], "entity_type", "")
    ELSE ""

\* variant: only the first mention recorded under each name is annotated
WeightNodes_first(pm, h, nodes) ==
    [r \in DOMAIN h |->
        IF r \in DictRefs(nodes) /\ r[4] = 1
        THEN LET entity_type == Get(h[r], "entity_type", "")
             IN  SetField(SetField(h[r], "priority", get_entity_priority(pm, entity_type)),
                          "weight", get_entity_weight(pm, entity_type))
        ELSE h[r]]

\* lines 48-53: every entity mention of the chunk gets priority and weight
WeightNodes(pm, h, nodes) ==
    [r \in DOMAIN h |->
        IF r \in DictRefs(nodes)
        THEN LET entity_type == Get(h[r], "entity_type", "")
             IN  SetField(SetField(h[r], "priority", get_entity_priority(pm, entity_type)),
                          "weight", get_entity_weight(pm, entity_type))
        ELSE h[r]]

\* line 64: is the key admitted, its endpoint types looked up in this chunk
Admitted(pm, h, edge_key, weighted_nodes) ==
    should_create_relationship(pm,
        _get_entity_type(h, edge_key[1], weighted_nodes),
        _get_entity_type(h, edge_key[2], weighted_nodes))

\* lines 57-76: the admitted keys, in order, are kept with their lists
FilterEdges(pm, h, edges, weighted_nodes) ==
    SelectSeq(edges, LAMBDA item : Admitted(pm, h, item.key, weighted_nodes))

\* lines 66-74: every mention of an admitted key gets its weight and priority_score
AdjustEdges(pm, h, filtered_edges, weighted_nodes) ==
    [r \in DOMAIN h |->
        IF r \in DictRefs(filtered_edges)
        THEN LET edge_key == filtered_edges[CHOOSE k \in DOMAIN filtered_edges :
                                               r \in Range(filtered_edges[k].val)].key
                 source_type == _get_entity_type(h, edge_key[1], weighted_nodes)
                 target_type == _get_entity_type(h, edge_key[2], weighted_nodes)
                 original_weight == Get(h[r], "weight", Real(1, 1))
             IN  SetField(SetField(h[r], "weight",
                              calculate_relationship_weight(pm, source_type, target_type,
                                                            original_weight)),
                          "priority_score",
                          (get_entity_weight(pm, source_type) +
                           get_entity_weight(pm, target_type)) \div 2)
        ELSE h[r]]

\* variant: the results are returned after the first chunk of the batch
ProcessResults_first(pm, h, results, c) ==
    IF c > Len(results) THEN [objs |-> h, processed_results |-> <<>>]
    ELSE LET h1 == WeightNodes(pm, h, results[c].nodes)
             weighted_nodes == results[c].nodes
             filtered_edges == FilterEdges(pm, h1, results[c].edges, weighted_nodes)
             h2 == AdjustEdges(pm, h1, filtered_edges, weighted_nodes)
         IN  [objs |-> h2,
              processed_results |-> <<[nodes |-> weighted_nodes, edges |-> filtered_edges]>>]

\* lines 44-80: the loop over the chunks; the heap is threaded through it.
\* Returns [objs |-> heap, processed_results |-> list].
RECURSIVE ProcessResults(_, _, _, _)
ProcessResults(pm, h, results, c) ==
    IF c > Len(results) THEN [objs |-> h, processed_results |-> <<>>]
    ELSE LET h1 == WeightNodes(pm, h, results[c].nodes)
             weighted_nodes == results[c].nodes
             filtered_edges == FilterEdges(pm, h1, results[c].edges, weighted_nodes)
             h2 == AdjustEdges(pm, h1, filtered_edges, weighted_nodes)
             rest == ProcessResults(pm, h2, results, c + 1)
         IN  [objs |-> rest.objs,
              processed_results |->
                  <<[nodes |-> weighted_nodes, edges |-> filtered_edges]>>
                  \o rest.processed_results]

----------------------------------------------------------------------------
(* _merge_entities_by_priority, _merge_relationships_by_priority *)

\* what "return {}" returns: a dict that is no mention
EmptyDict == <<0, "-", 0, 0>>

\* the dict a reference stands for
Deref(h, r) == IF r = EmptyDict THEN [f \in {} |-> ""] ELSE h[r]

Priority(h, r) == Get(h[r], "priority", UnknownPriority)
PriorityScore(h, r) == Get(h[r], "priority_score", 0)

\* variant: the descriptions are taken in list order, without the sort
Descriptions_unsorted(h, entities) ==
    LET kept == SelectSeq(entities, LAMBDA e : Get(h[e], "description", "") # "")
    IN  [i \in 1..Len(kept) |-> h[kept[i]].description]

\* lines 226-229: the non-empty descriptions, in ascending priority (stable)
Descriptions(h, entities) ==
    LET ordered == StableSort(entities, [i \in DOMAIN entities |-> <<Priority(h, entities[i])>>])
        kept == SelectSeq(ordered, LAMBDA e : Get(h[e], "description", "") # "")
    IN  [i \in 1..Len(kept) |-> h[kept[i]].description]

\* variant: the base is the first mention of the list
_merge_entities_first(h, entities) ==
    IF Len(entities) = 0 THEN [objs |-> h, merged |-> <<0, "-", 0, 0>>]
    ELSE [objs |-> [h EXCEPT ![entities[1]] =
                       SetField(@, "description",
                                Join(" | ", Descriptions(h, entities)))],
          merged |-> entities[1]]

\* variant: the base's own description is joined in front of the list once more
_merge_entities_rejoined(h, entities) ==
    IF Len(entities) = 0 THEN [objs |-> h, merged |-> EmptyDict]
    ELSE LET base_entity == MinBy(entities, [i \in DOMAIN entities |-> Priority(h, entities[i])])
         IN  [objs |-> [h EXCEPT ![base_entity] =
                           SetField(@, "description",
                                    Join(" | ", <<Get(h[base_entity], "description", "")>>
                                                \o Descriptions(h, entities)))],
              merged |-> base_entity]

\* Returns [objs |-> heap after the call, merged |-> the returned dict].
_merge_entities_by_priority(h, entities) ==
    IF Len(entities) = 0 THEN [objs |-> h, merged |-> EmptyDict]
    ELSE LET base_entity == MinBy(entities, [i \in DOMAIN entities |-> Priority(h, entities[i])])
         IN  [objs |-> [h EXCEPT ![base_entity] =
                           SetField(@, "description", Join(" | ", Descriptions(h, entities)))],
              merged |-> base_entity]

\* variant: the base keeps its own weight
_merge_relationships_base_weight(h, edges) ==
    IF Len(edges) = 0 THEN [objs |-> h, merged |-> EmptyDict]
    ELSE [objs |-> h, merged |-> MaxBy(edges, [i \in DOMAIN edges |-> PriorityScore(h, edges[i])])]

\* variant: the base takes the weight of the last mention of the list
_merge_relationships_last_weight(h, edges) ==
    IF Len(edges) = 0 THEN [objs |-> h, merged |-> EmptyDict]
    ELSE LET base_edge == MaxBy(edges, [i \in DOMAIN edges |-> PriorityScore(h, edges[i])])
         IN  [objs |-> [h EXCEPT ![base_edge] =
                           SetField(@, "weight",
                                    Get(h[edges[Len(edges)]], "weight", Real(1, 1)))],
              merged |-> base_edge]

_merge_relationships_by_priority(h, edges) ==
    IF Len(edges) = 0 THEN [objs |-> h, merged |-> EmptyDict]
    ELSE LET base_edge == MaxBy(edges, [i \in DOMAIN edges |-> PriorityScore(h, edges[i])])
         IN  [objs |-> [h EXCEPT ![base_edge] =
                           SetField(@, "weight",
                                    MaxOf({Get(h[e], "weight", Real(1, 1)) :
                                              e \in Range(edges)}))],
              merged |-> base_edge]

----------------------------------------------------------------------------
(* _process_merged_data: the hand-off to the graph and vector storages.    *)
(* S is the record of the four stores and the log of the calls on them.    *)

\* variant: the identifier depends on the time of the call as well
compute_mdhash_id_salted(content, prefix) == prefix \o content \o "@" \o ToString(clock)

\* lightrag.utils.compute_mdhash_id: prefix + md5(content); the digest is
\* taken to be injective, so the content stands for its digest.
compute_mdhash_id(content, prefix) == prefix \o content

\* lines 161-164
RECURSIVE UpsertNodes(_, _, _)
UpsertNodes(S, h, ed) ==
    IF ed = <<>> THEN S
    ELSE LET entity_data == Deref(h, Head(ed))
             entity_name == Get(entity_data, "entity_name", "")
             S1 == IF entity_name # ""
                   THEN [S EXCEPT !.graph_nodes = (entity_name :> entity_data) @@ @,
                                  !.sink_log = Append(@, [op |-> "upsert_node",
                                                          node |-> entity_name])]
                   ELSE S
         IN  UpsertNodes(S1, h, Tail(ed))

\* variant: a document is written whatever the name
RECURSIVE EntityVdbData_unguarded(_, _, _)
EntityVdbData_unguarded(h, ed, entity_vdb_data) ==
    IF ed = <<>> THEN entity_vdb_data
    ELSE LET entity_data == Deref(h, Head(ed))
             entity_name == Get(entity_data, "entity_name", "")
             doc == [entity_name |-> entity_name,
                     entity_type |-> Get(entity_data, "entity_type", ""),
                     content |-> entity_name \o "\n" \o Get(entity_data, "description", ""),
                     source_id |-> Get(entity_data, "source_id", ""),
                     file_path |-> Get(entity_data, "file_path", "unknown_source")]
         IN  EntityVdbData_unguarded(h, Tail(ed),
                 (compute_mdhash_id(entity_name, "ent-") :> doc) @@ entity_vdb_data)

\* lines 167-178
RECURSIVE EntityVdbData(_, _, _)
EntityVdbData(h, ed, entity_vdb_data) ==
    IF ed = <<>> THEN entity_vdb_data
    ELSE LET entity_data == Deref(h, Head(ed))
             entity_name == Get(entity_data, "entity_name", "")
             doc == [entity_name |-> entity_name,
                     entity_type |-> Get(entity_data, "entity_type", ""),
                     content |-> entity_name \o "\n" \o Get(entity_data, "description", ""),
                     source_id |-> Get(entity_data, "source_id", ""),
                     file_path |-> Get(entity_data, "file_path", "unknown_source")]
         IN  EntityVdbData(h, Tail(ed),
                 IF entity_name # ""
                 THEN (compute_mdhash_id(entity_name, "ent-") :> doc) @@ entity_vdb_data
                 ELSE entity_vdb_data)

\* lines 185-197
RECURSIVE UpsertEdges(_, _, _, _)
UpsertEdges(S, h, rd, now) ==
    IF rd = <<>> THEN S
    ELSE LET relationship_data == Deref(h, Head(rd))
             src_id == Get(relationship_data, "src_id", "")
             tgt_id == Get(relationship_data, "tgt_id", "")
             edge_data == [weight |-> Get(relationship_data, "weight", Real(1, 1)),
                           description |-> Get(relationship_data, "description", ""),
                           keywords |-> Get(relationship_data, "keywords", ""),
                           source_id |-> Get(relationship_data, "source_id", ""),
                           file_path |-> Get(relationship_data, "file_path", "unknown"),
                           created_at |-> now]
             S1 == IF src_id # "" /\ tgt_id # ""
                   THEN [S EXCEPT !.graph_edges = (<<src_id, tgt_id>> :> edge_data) @@ @,
                                  !.sink_log = Append(@, [op |-> "upsert_edge",
                                                          src |-> src_id, tgt |-> tgt_id])]
                   ELSE S
         IN  UpsertEdges(S1, h, Tail(rd), now)

\* lines 200-213
RECURSIVE RelationshipVdbData(_, _, _)
RelationshipVdbData(h, rd, relationship_vdb_data) ==
    IF rd = <<>> THEN relationship_vdb_data
    ELSE LET relationship_data == Deref(h, Head(rd))
             src_id == Get(relationship_data, "src_id", "")
             tgt_id == Get(relationship_data, "tgt_id", "")
             doc == [src_id |-> src_id,
                     tgt_id |-> tgt_id,
                     keywords |-> Get(relationship_data, "keywords", ""),
                     content |-> Get(relationship_data, "keywords", "") \o "\t" \o src_id
                                 \o "\n" \o tgt_id \o "\n"
                                 \o Get(relationship_data, "description", ""),
                     source_id |-> Get(relationship_data, "source_id", ""),
                     file_path |-> Get(relationship_data, "file_path", "unknown_source")]
         IN  RelationshipVdbData(h, Tail(rd),
                 IF src_id # "" /\ tgt_id # ""
                 THEN (compute_mdhash_id(src_id \o tgt_id, "rel-") :> doc)
                      @@ relationship_vdb_data
                 ELSE relationship_vdb_data)

NoDocs == [id \in {} |-> ""]

_process_merged_data(S, h, ed, rd, now) ==
    LET S1 == IF ed # <<>> THEN UpsertNodes(S, h, ed) ELSE S
        entity_vdb_data == IF ed # <<>> THEN EntityVdbData(h, ed, NoDocs) ELSE NoDocs
        S2 == IF DOMAIN entity_vdb_data # {}
              THEN [S1 EXCEPT !.entity_vdb = entity_vdb_data @@ @,
                              !.sink_log = Append(@, [op |-> "entity_vdb.upsert",
                                                      ids |-> DOMAIN entity_vdb_data])]
              ELSE S1
        S3 == IF rd # <<>> THEN UpsertEdges(S2, h, rd, now) ELSE S2
        relationship_vdb_data ==
              IF rd # <<>> THEN RelationshipVdbData(h, rd, NoDocs) ELSE NoDocs
    IN  IF DOMAIN relationship_vdb_data # {}
        THEN [S3 EXCEPT !.relationships_vdb = relationship_vdb_data @@ @,
                        !.sink_log = Append(@, [op |-> "relationships_vdb.upsert",
                                                ids |-> DOMAIN relationship_vdb_data])]
        ELSE S3

----------------------------------------------------------------------------
(* merge_nodes_and_edges_with_priority *)

\* line 115: key (priority, -weight)
EntitySortKey(h, x) == <<Priority(h, x), 0 - Get(h[x], "weight", 0)>>

\* line 121: key -priority_score
EdgeSortKey(h, x) == <<0 - PriorityScore(h, x)>>

\* the items of the nodes (edges) dicts of the chunks, in iteration order
RECURSIVE NodeItems(_)
NodeItems(results) ==
    IF results = <<>> THEN <<>> ELSE Head(results).nodes \o NodeItems(Tail(results))

RECURSIVE EdgeItems(_)
EdgeItems(results) ==
    IF results = <<>> THEN <<>> ELSE Head(results).edges \o EdgeItems(Tail(results))

\* the merge key of an edge item: the dict key as it stands
EdgeKey(edge_key) == edge_key

\* lines 112-116
RECURSIVE GatherNodes(_, _, _)
GatherNodes(h, items, all_nodes) ==
    IF items = <<>> THEN all_nodes
    ELSE LET entities == Head(items).val
             sorted_entities ==
                 StableSort(entities,
                            [i \in DOMAIN entities |-> EntitySortKey(h, entities[i])])
         IN  GatherNodes(h, Tail(items),
                         DictExtend(all_nodes, Head(items).key, sorted_entities))

\* lines 119-122
RECURSIVE GatherEdges(_, _, _)
GatherEdges(h, items, all_edges) ==
    IF items = <<>> THEN all_edges
    ELSE LET edges == Head(items).val
             sorted_edges ==
                 StableSort(edges, [i \in DOMAIN edges |-> EdgeSortKey(h, edges[i])])
         IN  GatherEdges(h, Tail(items),
                         DictExtend(all_edges, EdgeKey(Head(items).key), sorted_edges))

MinPriority(h, entities) == MinOf({Priority(h, e) : e \in Range(entities)})
MaxPriorityScore(h, edges) == MaxOf({PriorityScore(h, e) : e \in Range(edges)})

\* variant: names of equal minimum priority are put in lexical order
SortNodes_lexical(h, all_nodes) ==
    StableSort(all_nodes,
               [i \in DOMAIN all_nodes |->
                   <<MinPriority(h, all_nodes[i].val), NameRank(all_nodes[i].key)>>])

\* variant: the names are processed in the order they were first seen
SortNodes_unsorted(h, all_nodes) == all_nodes

\* lines 125-126: sorted() of the items, stable over the insertion order
SortNodes(h, all_nodes) ==
    StableSort(all_nodes,
               [i \in DOMAIN all_nodes |-> <<MinPriority(h, all_nodes[i].val)>>])

\* variant: the keys are processed in the order they were first seen
SortEdges_unsorted(h, all_edges) == all_edges

\* lines 137-138
SortEdges(h, all_edges) ==
    StableSort(all_edges,
               [i \in DOMAIN all_edges |-> <<0 - MaxPriorityScore(h, all_edges[i].val)>>])

\* min() / max() of an empty sequence raises ValueError
HasEmptyList(d) == \E k \in DOMAIN d : Len(d[k].val) = 0

\* lines 140-142: returns [objs, relationships_data]
RECURSIVE MergeEdges(_, _, _)
MergeEdges(h, priority_sorted_edges, merged_edges) ==
    IF priority_sorted_edges = <<>>
    THEN [objs |-> h, relationships_data |-> merged_edges]
    ELSE LET m == _merge_relationships_by_priority(h, Head(priority_sorted_edges).val)
         IN  MergeEdges(m.objs, Tail(priority_sorted_edges),
                        Append(merged_edges, m.merged))

\* lines 130-146: the loop over the entities; the relationships are merged and
\* the data handed to the storages inside the loop body, once per entity.
\* st = [objs, entities_data, relationships_data, sink, error].
RECURSIVE MergeLoop(_, _, _, _)
MergeLoop(st, priority_sorted_nodes, all_edges, now) ==
    IF priority_sorted_nodes = <<>> THEN st
    ELSE LET me == _merge_entities_by_priority(st.objs, Head(priority_sorted_nodes).val)
             entities_data1 == Append(st.entities_data, me.merged)
         IN  IF HasEmptyList(all_edges)
             THEN [st EXCEPT !.objs = me.objs,
                             !.entities_data = entities_data1,
                             !.relationships_data = <<>>,
                             !.error = TRUE]
             ELSE LET mr == MergeEdges(me.objs, SortEdges(me.objs, all_edges), <<>>)
                      S1 == _process_merged_data(st.sink, mr.objs, entities_data1,
                                                 mr.relationships_data, now)
                  IN  MergeLoop([objs |-> mr.objs,
                                 entities_data |-> entities_data1,
                                 relationships_data |-> mr.relationships_data,
                                 sink |-> S1,
                                 error |-> FALSE],
                                Tail(priority_sorted_nodes), all_edges, now)

\* the whole call: lines 107-146
merge_nodes_and_edges_with_priority(h, results, S, now) ==
    LET all_nodes == GatherNodes(h, NodeItems(results), <<>>)
        all_edges == GatherEdges(h, EdgeItems(results), <<>>)
        st0 == [objs |-> h, entities_data |-> <<>>, relationships_data |-> <<>>,
                sink |-> S, error |-> FALSE]
    IN  IF HasEmptyList(all_nodes) THEN [st0 EXCEPT !.error = TRUE]
        ELSE MergeLoop(st0, SortNodes(h, all_nodes), all_edges, now)

----------------------------------------------------------------------------
(* The batches the extraction step can return *)

MaxChunks == 2            \* chunks of a batch
MaxEntityMentions == 2    \* entity mentions of a batch, all chunks together
MaxEdgeMentions == 2      \* relationship mentions of a batch, all chunks together
MaxRuns == 2              \* runs of the same batch against the same storages

\* What a raw entity mention carries besides its name and source: a type of
\* tier 1 (two of them, of different weight), 2, 4 or none, and a description
\* (possibly empty or missing).
EntityTemplates ==
    {[entity_type |-> "device", description |-> "A"],
     [entity_type |-> "fault", description |-> "F"],
     [entity_type |-> "cause", description |-> "B"],
     [entity_type |-> "area", description |-> ""],
     [f \in {} |-> ""]}

\* What a raw relationship mention carries besides its endpoints and source.
EdgeTemplates ==
    {[description |-> "r", keywords |-> "k"],
     [description |-> "s", keywords |-> "k", weight |-> Real(9, 1)]}

ChunkId(c) == "chunk-" \o ToString(c)

MakeEntity(c, name, t) ==
    [entity_name |-> name, source_id |-> ChunkId(c), file_path |-> "doc.txt"] @@ t

MakeEdge(c, edge_key, t) ==
    [src_id |-> edge_key[1], tgt_id |-> edge_key[2],
     source_id |-> ChunkId(c), file_path |-> "doc.txt"] @@ t

RECURSIVE SumSeq(_)
SumSeq(s) == IF s = <<>> THEN 0 ELSE Head(s) + SumSeq(Tail(s))

\* the orders in which some of the keys K can be inserted into a dict
KeyOrders(K) ==
    {ks \in UNION {[1..n -> K] : n \in 0..Cardinality(K)} :
        \A i, j \in DOMAIN ks : i # j => ks[i] # ks[j]}

\* the dicts with keys among K holding n templates of T in all, every list
\* of at least `least` templates
DictsFrom(K, T, n, least) ==
    UNION {UNION {
        {[k \in 1..Len(ks) |->
            [key |-> ks[k],
             val |-> [i \in 1..lens[k] |->
                        flat[SumSeq(SubSeq(lens, 1, k - 1)) + i]]]] :
         flat \in [1..n -> T]} :
        lens \in {l \in [1..Len(ks) -> least..n] : SumSeq(l) = n}} :
        ks \in KeyOrders(K)}

\* the dicts extract_entities fills: a key is made by the first append to
\* its list, so no list is empty
DictsOf(K, T, n) == DictsFrom(K, T, n, 1)

EdgeKeys == {<<a, b>> : a, b \in Names} \ {<<a, a>> : a \in Names}

\* the nodes dicts of chunk c with e mentions in all
NodeDicts(c, e) ==
    {[k \in DOMAIN d |->
        [key |-> d[k].key,
         val |-> [i \in DOMAIN d[k].val |-> MakeEntity(c, d[k].key, d[k].val[i])]]] :
     d \in DictsOf(Names, EntityTemplates, e)}

\* the edges dicts of chunk c with r mentions in all
EdgeDicts(c, r) ==
    {[k \in DOMAIN d |->
        [key |-> d[k].key,
         val |-> [i \in DOMAIN d[k].val |-> MakeEdge(c, d[k].key, d[k].val[i])]]] :
     d \in DictsOf(EdgeKeys, EdgeTemplates, r)}

\* The same for a caller that hands over dicts of its own making: a key may
\* hold an empty list.
SparseNodeDicts(c, e) ==
    {[k \in DOMAIN d |->
        [key |-> d[k].key,
         val |-> [i \in DOMAIN d[k].val |-> MakeEntity(c, d[k].key, d[k].val[i])]]] :
     d \in DictsFrom(Names, EntityTemplates, e, 0)}

SparseEdgeDicts(c, r) ==
    {[k \in DOMAIN d |->
        [key |-> d[k].key,
         val |-> [i \in DOMAIN d[k].val |-> MakeEdge(c, d[k].key, d[k].val[i])]]] :
     d \in DictsFrom(EdgeKeys, EdgeTemplates, r, 0)}

SparseChunks == 2      \* chunks of a batch with empty lists
SparseMentions == 1    \* its entity mentions, and its relationship mentions

\* ex is such a batch: chunks c..SparseChunks appended to acc, with at most e
\* entity and r relationship mentions in them
RECURSIVE IsSparseBatch(_, _, _, _, _)
IsSparseBatch(ex, acc, c, e, r) ==
    IF c > SparseChunks THEN ex = acc
    ELSE \E e1 \in 0..e, r1 \in 0..r :
            \E nd \in SparseNodeDicts(c, e1), ed \in SparseEdgeDicts(c, r1) :
                IsSparseBatch(ex, Append(acc, [nodes |-> nd, edges |-> ed]),
                              c + 1, e - e1, r - r1)

\* Corner inputs of the hand-off and of the registry: entity names that are
\* short codes, one a repetition of the other; mentions of a label no table
\* lists, of an empty name or of no name; a relationship of negative strength.
CodeNames == {"A", "AA"}

CodeKeys == {<<a, b>> : a, b \in CodeNames} \ {<<a, a>> : a \in CodeNames}

EntityKinds == {"device", "cause", "untyped", "vendor", "blank", "unnamed"}

EdgeKinds == {"plain", "negative"}

CodeEntity(c, name, kind) ==
    LET base == [source_id |-> ChunkId(c), file_path |-> "doc.txt"]
    IN  CASE kind = "device" ->
                 base @@ [entity_name |-> name, entity_type |-> "device", description |-> "A"]
          [] kind = "cause" ->
                 base @@ [entity_name |-> name, entity_type |-> "cause", description |-> "B"]
          [] kind = "untyped" -> base @@ [entity_name |-> name, description |-> "C"]
          [] kind = "vendor" ->
                 base @@ [entity_name |-> name, entity_type |-> "vendor", description |-> "V"]
          [] kind = "blank" ->
                 base @@ [entity_name |-> "", entity_type |-> "device", description |-> "D"]
          [] kind = "unnamed" -> base @@ [entity_type |-> "cause", description |-> "U"]

CodeEdge(c, edge_key, kind) ==
    LET base == [src_id |-> edge_key[1], tgt_id |-> edge_key[2], description |-> "r",
                 keywords |-> "k", source_id |-> ChunkId(c), file_path |-> "doc.txt"]
    IN  IF kind = "negative" THEN base @@ [weight |-> 0 - Real(1, 1)] ELSE base

CodeNodeDicts(c, e) ==
    {[k \in DOMAIN d |->
        [key |-> d[k].key,
         val |-> [i \in DOMAIN d[k].val |-> CodeEntity(c, d[k].key, d[k].val[i])]]] :
     d \in DictsOf(CodeNames, EntityKinds, e)}

CodeEdgeDicts(c, r) ==
    {[k \in DOMAIN d |->
        [key |-> d[k].key,
         val |-> [i \in DOMAIN d[k].val |-> CodeEdge(c, d[k].key, d[k].val[i])]]] :
     d \in DictsOf(CodeKeys, EdgeKinds, r)}

CodeChunks == 1      \* chunks of such a batch
CodeMentions == 2    \* its entity mentions, and its relationship mentions

RECURSIVE IsCodeBatch(_, _, _, _, _)
IsCodeBatch(ex, acc, c, e, r) ==
    IF c > CodeChunks THEN ex = acc
    ELSE \E e1 \in 0..e, r1 \in 0..r :
            \E nd \in CodeNodeDicts(c, e1), ed \in CodeEdgeDicts(c, r1) :
                IsCodeBatch(ex, Append(acc, [nodes |-> nd, edges |-> ed]),
                            c + 1, e - e1, r - r1)

\* ex is a batch: chunks c..MaxChunks appended to acc, with at most e entity
\* and r relationship mentions in them
RECURSIVE IsBatch(_, _, _, _, _)
IsBatch(ex, acc, c, e, r) ==
    IF c > MaxChunks THEN ex = acc
    ELSE \E e1 \in 0..e, r1 \in 0..r :
            \E nd \in NodeDicts(c, e1), ed \in EdgeDicts(c, r1) :
                IsBatch(ex, Append(acc, [nodes |-> nd, edges |-> ed]),
                        c + 1, e - e1, r - r1)

----------------------------------------------------------------------------
(* The pipeline *)

NoSink == [graph_nodes |-> [n \in {} |-> ""], graph_edges |-> [e \in {} |-> ""],
           entity_vdb |-> NoDocs, relationships_vdb |-> NoDocs, sink_log |-> <<>>]

Sink == [graph_nodes |-> graph_nodes, graph_edges |-> graph_edges,
         entity_vdb |-> entity_vdb, relationships_vdb |-> relationships_vdb,
         sink_log |-> sink_log]

NoObjs == [r \in {} |-> ""]

Init ==
    /\ priority_manager = DefaultManager
    /\ IsBatch(extraction, <<>>, 1, MaxEntityMentions, MaxEdgeMentions)
    /\ entity_types = get_priority_entities(DefaultManager)
    /\ objs = NoObjs
    /\ chunk_results = <<>>
    /\ entities_data = <<>>
    /\ relationships_data = <<>>
    /\ graph_nodes = NoSink.graph_nodes
    /\ graph_edges = NoSink.graph_edges
    /\ entity_vdb = NoSink.entity_vdb
    /\ relationships_vdb = NoSink.relationships_vdb
    /\ sink_log = <<>>
    /\ clock = 1
    /\ previous = <<>>
    /\ pc = "start"

\* variant: a repeated call hands back the objects of the call before
ExtractedObjs_cached == IF DOMAIN objs # {} THEN objs ELSE NewObjs(extraction)

\* the objects extract_entities returns: made anew by every call
ExtractedObjs == NewObjs(extraction)

\* lines 29-32 subscript priority_config with 1, 2, 3 and 4
PromptBuilds == PromptTiers \subseteq DOMAIN priority_manager.priority_config

\* extract_entities_with_priority, extraction succeeding
ExtractEntitiesWithPriority ==
    /\ pc = "start"
    /\ PromptBuilds
    /\ \E out \in {ProcessResults(priority_manager, ExtractedObjs, NewResults(extraction), 1)} :
           /\ objs' = out.objs
           /\ chunk_results' = out.processed_results
    /\ entity_types' = get_priority_entities(priority_manager)
    /\ pc' = "normalized"
    /\ UNCHANGED <<priority_manager, extraction, entities_data, relationships_data,
                   graph_nodes, graph_edges, entity_vdb, relationships_vdb,
                   sink_log, clock, previous>>

\* extract_entities_with_priority, the awaited extract_entities raising or
\* being cancelled: the exception leaves the function at line 41
ExtractionFails ==
    /\ pc = "start"
    /\ PromptBuilds
    /\ entity_types' = get_priority_entities(priority_manager)
    /\ pc' = "failed"
    /\ UNCHANGED <<priority_manager, extraction, objs, chunk_results, entities_data,
                   relationships_data, graph_nodes, graph_edges, entity_vdb,
                   relationships_vdb, sink_log, clock, previous>>

\* extract_entities_with_priority, a tier of the prompt text missing from
\* priority_config: the subscript raises KeyError before line 38
PriorityPromptRaises ==
    /\ pc = "start"
    /\ ~PromptBuilds
    /\ pc' = "key_error"
    /\ UNCHANGED <<priority_manager, extraction, entity_types, objs, chunk_results,
                   entities_data, relationships_data, graph_nodes, graph_edges,
                   entity_vdb, relationships_vdb, sink_log, clock, previous>>

\* merge_nodes_and_edges_with_priority on the normalized results
MergeNodesAndEdgesWithPriority ==
    /\ pc = "normalized"
    /\ \E out \in {merge_nodes_and_edges_with_priority(objs, chunk_results, Sink, clock)} :
           /\ objs' = out.objs
           /\ entities_data' = out.entities_data
           /\ relationships_data' = out.relationships_data
           /\ graph_nodes' = out.sink.graph_nodes
           /\ graph_edges' = out.sink.graph_edges
           /\ entity_vdb' = out.sink.entity_vdb
           /\ relationships_vdb' = out.sink.relationships_vdb
           /\ sink_log' = out.sink.sink_log
           /\ pc' = IF out.error THEN "error" ELSE "done"
    /\ UNCHANGED <<priority_manager, extraction, entity_types, chunk_results,
                   clock, previous>>

\* the canonical lists by value
CanonicalEntities == [i \in DOMAIN entities_data |-> Deref(objs, entities_data[i])]
CanonicalRelationships ==
    [i \in DOMAIN relationships_data |-> Deref(objs, relationships_data[i])]

\* the same batch is imported again against the same storages; the lists of
\* the finished run stay until the new run assigns them
NextRun ==
    /\ pc = "done"
    /\ clock < MaxRuns
    /\ previous' = <<[entities |-> CanonicalEntities,
                      relationships |-> CanonicalRelationships]>>
    /\ clock' = clock + 1
    /\ pc' = "start"
    /\ UNCHANGED <<priority_manager, extraction, entity_types, objs, chunk_results,
                   entities_data, relationships_data, graph_nodes, graph_edges,
                   entity_vdb, relationships_vdb, sink_log>>

Next ==
    \/ ExtractEntitiesWithPriority
    \/ ExtractionFails
    \/ MergeNodesAndEdgesWithPriority
    \/ NextRun

Spec == Init /\ [][Next]_vars

\* The engine under the corner inputs of the hand-off and of the registry.
InitCodes ==
    /\ priority_manager = DefaultManager
    /\ IsCodeBatch(extraction, <<>>, 1, CodeMentions, CodeMentions)
    /\ entity_types = get_priority_entities(DefaultManager)
    /\ objs = NoObjs
    /\ chunk_results = <<>>
    /\ entities_data = <<>>
    /\ relationships_data = <<>>
    /\ graph_nodes = NoSink.graph_nodes
    /\ graph_edges = NoSink.graph_edges
    /\ entity_vdb = NoSink.entity_vdb
    /\ relationships_vdb = NoSink.relationships_vdb
    /\ sink_log = <<>>
    /\ clock = 1
    /\ previous = <<>>
    /\ pc = "start"

SpecCodes == InitCodes /\ [][Next]_vars

\* The engine under inputs that fall back on defaults: the tables of the
\* manager possibly emptied, lists of the chunk results possibly empty.
InitDefaults ==
    /\ priority_manager \in {DefaultManager, EmptyManager}
    /\ IsSparseBatch(extraction, <<>>, 1, SparseMentions, SparseMentions)
    /\ entity_types = get_priority_entities(DefaultManager)
    /\ objs = NoObjs
    /\ chunk_results = <<>>
    /\ entities_data = <<>>
    /\ relationships_data = <<>>
    /\ graph_nodes = NoSink.graph_nodes
    /\ graph_edges = NoSink.graph_edges
    /\ entity_vdb = NoSink.entity_vdb
    /\ relationships_vdb = NoSink.relationships_vdb
    /\ sink_log = <<>>
    /\ clock = 1
    /\ previous = <<>>
    /\ pc = "start"

NextDefaults ==
    \/ ExtractEntitiesWithPriority
    \/ ExtractionFails
    \/ PriorityPromptRaises
    \/ MergeNodesAndEdgesWithPriority
    \/ NextRun

SpecDefaults == InitDefaults /\ [][NextDefaults]_vars

----------------------------------------------------------------------------
(* The specification's vocabulary, stated over the raw extraction result *)

\* the default four-tier table (section 4.1)
SpecTier(t) ==
    CASE t \in {"device", "fault", "time"} -> 1
      [] t \in {"cause", "measure"} -> 2
      [] t = "person" -> 3
      [] t = "area" -> 4
      [] OTHER -> 999

\* the default weight table, in fixed point
SpecWeight(t) ==
    CASE t = "device" -> Real(10, 1) [] t = "fault" -> Real(9, 1)
      [] t = "time" -> Real(8, 1) [] t = "cause" -> Real(7, 1)
      [] t = "measure" -> Real(6, 1) [] t = "person" -> Real(5, 1)
      [] t = "area" -> Real(4, 1) [] OTHER -> Real(1, 1)

Registered(t) == SpecTier(t) # 999

\* the raw mentions recorded under a name in chunk c (none when the name is no key)
RawMentions(c, name) ==
    LET nodes == extraction[c].nodes
    IN  IF \E k \in DOMAIN nodes : nodes[k].key = name
        THEN nodes[CHOOSE k \in DOMAIN nodes : nodes[k].key = name].val
        ELSE <<>>

\* the entity_type of the first mention recorded under the name in chunk c
FirstType(c, name) ==
    IF Len(RawMentions(c, name)) > 0
    THEN Get(RawMentions(c, name)[1], "entity_type", "")
    ELSE ""

\* normalization has produced chunk_results for the batch
Normalized == pc \in {"normalized", "done", "error"}

\* the relationship key is in the normalized result of chunk c
Kept(c, edge_key) == edge_key \in DictKeys(chunk_results[c].edges)

RawEdgeKeys(c) == {extraction[c].edges[k].key : k \in DOMAIN extraction[c].edges}

\* the names that are keys of some chunk's entity mapping
BatchNames == UNION {DictKeys(extraction[c].nodes) : c \in DOMAIN extraction}

\* the places <<c, j>> of the raw mentions of a name
MentionsOf(name) ==
    UNION {{<<c, j>> : j \in 1..Len(RawMentions(c, name))} : c \in DOMAIN extraction}

RawMention(name, at) == RawMentions(at[1], name)[at[2]]

MentionTier(name, at) == SpecTier(Get(RawMention(name, at), "entity_type", ""))

MinTier(name) == MinOf({MentionTier(name, at) : at \in MentionsOf(name)})

\* the canonical entities recorded for a name
CanonicalOf(name) ==
    {i \in DOMAIN entities_data : Get(CanonicalEntities[i], "entity_name", "") = name}

\* two dicts agree on a field: both lack it or both hold the same value
SameField(v, m, f) ==
    /\ f \in DOMAIN v <=> f \in DOMAIN m
    /\ f \in DOMAIN v => v[f] = m[f]

\* the ways to put the mentions of a name in ascending tier order
TierOrders(name) ==
    LET P == MentionsOf(name)
        n == Cardinality(P)
    IN  {o \in [1..n -> P] :
            /\ \A i, j \in 1..n : i # j => o[i] # o[j]
            /\ \A i, j \in 1..n : i < j => MentionTier(name, o[i]) <= MentionTier(name, o[j])}

\* the non-empty descriptions along an order of the mentions
DescriptionsAlong(name, o) ==
    LET all == [i \in DOMAIN o |-> Get(RawMention(name, o[i]), "description", "")]
    IN  SelectSeq(all, LAMBDA d : d # "")

\* the raw relationship mentions recorded under a key in chunk c
RawEdges(c, edge_key) ==
    LET edges == extraction[c].edges
    IN  IF \E k \in DOMAIN edges : edges[k].key = edge_key
        THEN edges[CHOOSE k \in DOMAIN edges : edges[k].key = edge_key].val
        ELSE <<>>

\* sourceWeight + targetWeight of a key in chunk c (twice its priority_score)
WeightSum(c, edge_key) ==
    SpecWeight(FirstType(c, edge_key[1])) + SpecWeight(FirstType(c, edge_key[2]))

\* the places <<c, j>> of the admitted mentions of a key
AdmittedMentions(edge_key) ==
    UNION {{<<c, j>> : j \in 1..Len(RawEdges(c, edge_key))} :
              c \in {d \in DOMAIN extraction : Kept(d, edge_key)}}

RawEdge(edge_key, at) == RawEdges(at[1], edge_key)[at[2]]

\* originalWeight * ((sourceWeight + targetWeight) / 2) / 10 of a mention
NormalWeight(edge_key, at) ==
    (Get(RawEdge(edge_key, at), "weight", Real(1, 1)) * WeightSum(at[1], edge_key))
        \div (2 * Real(10, 1))

\* list order: chunk order, then the order of the mentions in the chunk
Earlier(a, b) == a[1] < b[1] \/ (a[1] = b[1] /\ a[2] < b[2])

\* the first mention, in list order, of the highest priority_score
BaseMention(edge_key) ==
    CHOOSE a \in AdmittedMentions(edge_key) :
        \A b \in AdmittedMentions(edge_key) :
            /\ WeightSum(a[1], edge_key) >= WeightSum(b[1], edge_key)
            /\ WeightSum(a[1], edge_key) = WeightSum(b[1], edge_key) => ~Earlier(b, a)

\* the key a canonical relationship stands for
CanonicalKey(i) == <<CanonicalRelationships[i].src_id, CanonicalRelationships[i].tgt_id>>

\* the name n1 is first seen, in the chunk sequence, before the name n2
NameSeenBefore(n1, n2) ==
    LET first(n) == MinOf({c \in DOMAIN extraction : n \in DictKeys(extraction[c].nodes)})
        at(c, n) == CHOOSE k \in DOMAIN extraction[c].nodes : extraction[c].nodes[k].key = n
    IN  \/ first(n1) < first(n2)
        \/ first(n1) = first(n2) /\ at(first(n1), n1) < at(first(n1), n2)

\* the admitted key k1 is first seen, in the chunk sequence, before k2
KeySeenBefore(k1, k2) ==
    LET first(x) == MinOf({c \in DOMAIN extraction : Kept(c, x)})
        at(c, x) == CHOOSE k \in DOMAIN extraction[c].edges : extraction[c].edges[k].key = x
    IN  \/ first(k1) < first(k2)
        \/ first(k1) = first(k2) /\ at(first(k1), k1) < at(first(k1), k2)

\* twice the maximum priority_score among the admitted mentions of a key
MaxWeightSum(edge_key) ==
    MaxOf({WeightSum(c, edge_key) : c \in {d \in DOMAIN extraction : Kept(d, edge_key)}})

\* the order of the relationship keys as Python compares tuples of strings
KeyLexBefore(k1, k2) ==
    \/ NameRank(k1[1]) < NameRank(k2[1])
    \/ NameRank(k1[1]) = NameRank(k2[1]) /\ NameRank(k1[2]) < NameRank(k2[2])

\* the weight the default table gives the type of a raw mention
MentionWeight(name, at) == SpecWeight(Get(RawMention(name, at), "entity_type", ""))

\* the mentions of a name of the lowest tier and, among those, of the highest weight
HeaviestOfLowestTier(name) ==
    LET lowest == {at \in MentionsOf(name) : MentionTier(name, at) = MinTier(name)}
    IN  {at \in lowest :
            \A b \in lowest : MentionWeight(name, at) >= MentionWeight(name, b)}

\* the calls of one kind the storages have received
Calls(op) == {i \in DOMAIN sink_log : sink_log[i].op = op}

\* the graph-node upserts of a name, the graph-edge upserts of a key
NodeUpserts(name) == {i \in Calls("upsert_node") : sink_log[i].node = name}
EdgeUpserts(edge_key) ==
    {i \in Calls("upsert_edge") : <<sink_log[i].src, sink_log[i].tgt>> = edge_key}

\* the relationship keys admitted in some chunk
KeptKeys == UNION {DictKeys(chunk_results[c].edges) : c \in DOMAIN chunk_results}

\* every name of the batch has one mention and every admitted key has one
Singletons ==
    /\ \A name \in BatchNames : Cardinality(MentionsOf(name)) = 1
    /\ \A edge_key \in KeptKeys : Cardinality(AdmittedMentions(edge_key)) = 1

\* a mention with its description read by default: '' when it carries none
WithDescription(m) ==
    IF "description" \in DOMAIN m THEN m ELSE SetField(m, "description", "")

\* a name, or a relationship key, whose mention list is empty in every chunk
EmptyInEveryChunk ==
    \/ \E name \in BatchNames : MentionsOf(name) = {}
    \/ \E edge_key \in UNION {RawEdgeKeys(c) : c \in DOMAIN extraction} :
           \A c \in DOMAIN extraction : Len(RawEdges(c, edge_key)) = 0

\* entity-type labels: the registered ones, the empty one, one no table lists
Labels == {"device", "fault", "time", "cause", "measure", "person", "area", "", "vendor"}

----------------------------------------------------------------------------
(* Claims *)

\* C1: in the normalization of a chunk a relationship key is kept if and only
\* if the tiers of its two endpoint types differ by at most 1, the type of an
\* endpoint being the entity_type of the first mention recorded under that
\* name in the same chunk; a tier-1/tier-2 pair is kept and a tier-1/tier-4
\* pair is dropped.
C1_TierFilter ==
    Normalized =>
        \A c \in DOMAIN extraction : \A edge_key \in RawEdgeKeys(c) :
            LET ts == SpecTier(FirstType(c, edge_key[1]))
                tt == SpecTier(FirstType(c, edge_key[2]))
            IN  /\ Kept(c, edge_key) <=> Abs(ts - tt) <= 1
                /\ {ts, tt} = {1, 2} => Kept(c, edge_key)
                /\ {ts, tt} = {1, 4} => ~Kept(c, edge_key)

\* a kept relationship one endpoint of which has a later mention in the chunk
\* whose tier, had it been the one looked up, would have dropped the pair
C1_Witness ==
    /\ pc = "normalized"
    /\ \E c \in DOMAIN extraction : \E edge_key \in RawEdgeKeys(c) : \E i \in {1, 2} :
          /\ Kept(c, edge_key)
          /\ \E j \in 2..Len(RawMentions(c, edge_key[i])) :
                Abs(SpecTier(Get(RawMentions(c, edge_key[i])[j], "entity_type", ""))
                    - SpecTier(FirstType(c, edge_key[3 - i]))) > 1

\* C2: an endpoint with no mention in the chunk has the empty type and tier
\* 999: the relationship is dropped when the other endpoint's type is
\* registered and kept when the other endpoint is unregistered or absent too,
\* whatever other chunks of the batch record under the name.
C2_AbsentEndpoint ==
    Normalized =>
        \A c \in DOMAIN extraction : \A edge_key \in RawEdgeKeys(c) :
            \A i \in {1, 2} :
                LET other == FirstType(c, edge_key[3 - i])
                IN  Len(RawMentions(c, edge_key[i])) = 0 =>
                        /\ Registered(other) => ~Kept(c, edge_key)
                        /\ ~Registered(other) => Kept(c, edge_key)

\* a kept relationship with an endpoint absent from its chunk and registered
\* in another chunk
C2_Witness ==
    /\ pc = "normalized"
    /\ \E c \in DOMAIN extraction : \E edge_key \in RawEdgeKeys(c) :
          \E i \in {1, 2} : \E d \in DOMAIN extraction \ {c} :
              /\ Len(RawMentions(c, edge_key[i])) = 0
              /\ Registered(FirstType(d, edge_key[i]))
              /\ Kept(c, edge_key)

\* C3: for every entity name the canonical entity's name, type, source_id
\* and file_path are those of one mention whose tier is the minimum over all
\* mentions of the name in the batch, whatever its chunk and position.
C3_BaseIsLowestTier ==
    pc = "done" =>
        \A name \in BatchNames : \E i \in CanonicalOf(name) :
            \E at \in MentionsOf(name) :
                /\ MentionTier(name, at) = MinTier(name)
                /\ \A f \in {"entity_name", "entity_type", "source_id", "file_path"} :
                      SameField(CanonicalEntities[i], RawMention(name, at), f)

\* a name whose lowest-tier mention comes from the second chunk, after a
\* mention of a higher tier number in the first chunk
C3_Witness ==
    /\ pc = "done"
    /\ \E name \in BatchNames : \E i \in CanonicalOf(name) :
          /\ Len(RawMentions(1, name)) > 0
          /\ Len(RawMentions(2, name)) > 0
          /\ MentionTier(name, <<2, 1>>) < MentionTier(name, <<1, 1>>)
          /\ CanonicalEntities[i].source_id = ChunkId(2)

\* C4: the canonical description is the " | "-joined sequence of the non-empty
\* descriptions of all mentions of the name, in ascending tier order, nothing
\* deduplicated; mentions of tiers 1 and 2 with descriptions A and B give
\* "A | B" in either input order.
C4_DescriptionJoin ==
    pc = "done" =>
        \A name \in BatchNames : \E i \in CanonicalOf(name) :
            LET description == Get(CanonicalEntities[i], "description", "")
                given == {<<MentionTier(name, at),
                            Get(RawMention(name, at), "description", "")>> :
                             at \in MentionsOf(name)}
            IN  /\ \E o \in TierOrders(name) :
                       description = Join(" | ", DescriptionsAlong(name, o))
                /\ (Cardinality(MentionsOf(name)) = 2 /\ given = {<<1, "A">>, <<2, "B">>})
                       => description = "A | B"

\* a name described "B" at tier 2 in the first chunk and "A" at tier 1 in the
\* second: the canonical description puts A first
C4_Witness ==
    /\ pc = "done"
    /\ \E name \in BatchNames : \E i \in CanonicalOf(name) :
          /\ MentionsOf(name) = {<<1, 1>>, <<2, 1>>}
          /\ MentionTier(name, <<1, 1>>) = 2
          /\ RawMention(name, <<1, 1>>).description = "B"
          /\ MentionTier(name, <<2, 1>>) = 1
          /\ RawMention(name, <<2, 1>>).description = "A"
          /\ CanonicalEntities[i].description = "A | B"

\* C7: after the merge the canonical entity list holds exactly one entry for
\* each name that is a key in some chunk: none missing, none twice.
C7_OneEntityPerName ==
    pc = "done" =>
        /\ Len(entities_data) = Cardinality(BatchNames)
        /\ \A name \in BatchNames : Cardinality(CanonicalOf(name)) = 1

\* a name recorded in both chunks has one canonical entity
C7_Witness ==
    /\ pc = "done"
    /\ \E name \in BatchNames :
          /\ Len(RawMentions(1, name)) > 0
          /\ Len(RawMentions(2, name)) > 0
          /\ Cardinality(CanonicalOf(name)) = 1

\* C5: every canonical relationship has the descriptive fields of the mention
\* with the highest priority_score (the first in list order on a tie) and the
\* maximum weight over all mentions of its key, also when the mention of
\* maximum weight is not the base.
C5_RelationshipBaseAndWeight ==
    pc = "done" =>
        \A i \in DOMAIN relationships_data :
            LET v == CanonicalRelationships[i]
                edge_key == CanonicalKey(i)
                base == BaseMention(edge_key)
            IN  /\ \A f \in {"src_id", "tgt_id", "description", "keywords",
                             "source_id", "file_path"} :
                      SameField(v, RawEdge(edge_key, base), f)
                /\ 2 * v.priority_score = WeightSum(base[1], edge_key)
                /\ v.weight = MaxOf({NormalWeight(edge_key, at) :
                                        at \in AdmittedMentions(edge_key)})

\* a canonical relationship whose base has the higher priority_score and
\* whose weight comes from another mention
C5_Witness ==
    /\ pc = "done"
    /\ \E i \in DOMAIN relationships_data :
          LET edge_key == CanonicalKey(i)
          IN  \E a, b \in AdmittedMentions(edge_key) :
                 /\ WeightSum(a[1], edge_key) > WeightSum(b[1], edge_key)
                 /\ NormalWeight(edge_key, b) > NormalWeight(edge_key, a)
                 /\ CanonicalRelationships[i].source_id = ChunkId(a[1])
                 /\ CanonicalRelationships[i].weight = NormalWeight(edge_key, b)

\* C6: the canonical relationship list never holds two entries with the same
\* unordered endpoint pair: mentions under (A, B) and under (B, A) are merged
\* into one canonical relationship.
C6_OnePerUnorderedPair ==
    pc = "done" =>
        \A i, j \in DOMAIN relationships_data :
            i # j => {CanonicalKey(i)[1], CanonicalKey(i)[2]}
                     # {CanonicalKey(j)[1], CanonicalKey(j)[2]}

\* C8: every mention of an admitted relationship gets priority_score =
\* (sourceWeight + targetWeight) / 2 and weight = originalWeight *
\* priority_score / 10, originalWeight being 1.0 when the mention has none; a
\* device-to-cause relationship of weight 1.0 gets 8.5 and 0.85.
C8_WeightArithmetic ==
    pc = "normalized" =>
        \A c \in DOMAIN extraction : \A k \in DOMAIN extraction[c].edges :
            LET edge_key == extraction[c].edges[k].key
            IN  Kept(c, edge_key) =>
                    \A j \in DOMAIN extraction[c].edges[k].val :
                        LET raw == extraction[c].edges[k].val[j]
                            now == objs[<<c, "e", k, j>>]
                            original == Get(raw, "weight", Real(1, 1))
                        IN  /\ 2 * now.priority_score = WeightSum(c, edge_key)
                            /\ FMul(now.weight, Real(10, 1)) =
                                   FMul(original, now.priority_score)
                            /\ (/\ FirstType(c, edge_key[1]) = "device"
                                /\ FirstType(c, edge_key[2]) = "cause"
                                /\ original = Real(1, 1))
                               => /\ now.priority_score = Real(85, 10)
                                  /\ now.weight = Real(85, 100)

\* a device-to-cause relationship without a weight of its own, normalized to
\* priority_score 8.5 and weight 0.85
C8_Witness ==
    /\ pc = "normalized"
    /\ \E c \in DOMAIN extraction : \E k \in DOMAIN extraction[c].edges :
          LET edge_key == extraction[c].edges[k].key
          IN  /\ FirstType(c, edge_key[1]) = "device"
              /\ FirstType(c, edge_key[2]) = "cause"
              /\ "weight" \notin DOMAIN extraction[c].edges[k].val[1]
              /\ objs[<<c, "e", k, 1>>].priority_score = Real(85, 10)
              /\ objs[<<c, "e", k, 1>>].weight = Real(85, 100)

C11_BaseIsHeaviestOfLowestTier ==
    pc = "done" =>
        \A name \in BatchNames : \A i \in CanonicalOf(name) :
            \E at \in HeaviestOfLowestTier(name) :
                \A f \in {"entity_name", "entity_type", "source_id", "file_path"} :
                    SameField(CanonicalEntities[i], RawMention(name, at), f)

\* C12: the canonical entity list is in ascending order of the minimum tier
\* among the mentions of the name: no canonical entity is preceded by one
\* whose minimum tier is strictly greater.
C12_EntityOrder ==
    pc = "done" =>
        \A i, j \in DOMAIN entities_data :
            i < j => MinTier(CanonicalEntities[i].entity_name)
                     <= MinTier(CanonicalEntities[j].entity_name)

\* a name of strictly lower minimum tier stands before a name that was seen
\* before it
C12_Witness ==
    /\ pc = "done"
    /\ \E i, j \in DOMAIN entities_data :
          /\ i < j
          /\ MinTier(CanonicalEntities[i].entity_name)
             < MinTier(CanonicalEntities[j].entity_name)
          /\ NameSeenBefore(CanonicalEntities[j].entity_name,
                            CanonicalEntities[i].entity_name)

\* C13: the canonical relationship list is in descending order of the maximum
\* priority_score among the mentions of the key: no canonical relationship is
\* preceded by one whose maximum priority_score is strictly smaller.
C13_RelationshipOrder ==
    pc = "done" =>
        \A i, j \in DOMAIN relationships_data :
            i < j => MaxWeightSum(CanonicalKey(i)) >= MaxWeightSum(CanonicalKey(j))

\* a key of strictly higher maximum priority_score stands before a key that
\* was seen before it
C13_Witness ==
    /\ pc = "done"
    /\ \E i, j \in DOMAIN relationships_data :
          /\ i < j
          /\ MaxWeightSum(CanonicalKey(i)) > MaxWeightSum(CanonicalKey(j))
          /\ KeySeenBefore(CanonicalKey(j), CanonicalKey(i))

\* C14: the merge treats the chunk results as an immutable snapshot: when it
\* returns, every candidate mention has the field values it had when the merge
\* was called, and no canonical record is one of the candidate records.
C14_ImmutableSnapshot ==
    [][(pc = "normalized" /\ pc' = "done") =>
          /\ \A r \in DOMAIN objs : objs'[r] = objs[r]
          /\ \A i \in DOMAIN entities_data' : entities_data'[i] \notin DOMAIN objs
          /\ \A i \in DOMAIN relationships_data' :
                relationships_data'[i] \notin DOMAIN objs]_vars

\* C15: a merge batch hands its output to the storages once: every canonical
\* entity is upserted as a graph node exactly once, every canonical
\* relationship as a graph edge exactly once, and the entity vector upsert and
\* the relationship vector upsert are each called at most once, however many
\* entities the batch has.
C15_OneHandOff ==
    (pc = "done" /\ clock = 1) =>
        /\ \A i \in DOMAIN entities_data :
              Cardinality(NodeUpserts(CanonicalEntities[i].entity_name)) = 1
        /\ \A i \in DOMAIN relationships_data :
              Cardinality(EdgeUpserts(CanonicalKey(i))) = 1
        /\ Cardinality(Calls("entity_vdb.upsert")) <= 1
        /\ Cardinality(Calls("relationships_vdb.upsert")) <= 1

\* C16: when the merge has returned, every relationship key admitted in some
\* chunk has been upserted as a graph edge and as a relationship vector
\* document, also in a batch with relationships and no entity mention.
C16_RelationshipsHandedOver ==
    pc = "done" =>
        \A edge_key \in KeptKeys :
            /\ EdgeUpserts(edge_key) # {}
            /\ edge_key \in DOMAIN graph_edges
            /\ compute_mdhash_id(edge_key[1] \o edge_key[2], "rel-")
                   \in DOMAIN relationships_vdb

\* C17: vector identifiers depend on the content only (the name; the
\* concatenated endpoint names), so a repeated run of the same batch against
\* the same storages makes the same calls with the same identifiers and the
\* same node and edge keys, and the storages hold no more documents, nodes and
\* edges than one run names.
C17_ContentAddressed ==
    (pc = "done" /\ previous # <<>>) =>
        LET n == Len(sink_log) \div clock
            first(op) == {i \in Calls(op) : i <= n}
        IN  /\ Len(sink_log) = n * clock
            /\ \A i \in 1..(Len(sink_log) - n) : sink_log[i + n] = sink_log[i]
            /\ DOMAIN entity_vdb = UNION {sink_log[i].ids : i \in first("entity_vdb.upsert")}
            /\ DOMAIN relationships_vdb =
                   UNION {sink_log[i].ids : i \in first("relationships_vdb.upsert")}
            /\ DOMAIN graph_nodes = {sink_log[i].node : i \in first("upsert_node")}
            /\ DOMAIN graph_edges =
                   {<<sink_log[i].src, sink_log[i].tgt>> : i \in first("upsert_edge")}
            /\ DOMAIN entity_vdb =
                   {"ent-" \o CanonicalEntities[i].entity_name : i \in DOMAIN entities_data}
            /\ DOMAIN relationships_vdb =
                   {"rel-" \o CanonicalKey(i)[1] \o CanonicalKey(i)[2] :
                       i \in DOMAIN relationships_data}

\* a second run over a batch with an entity and a relationship has finished
C17_Witness ==
    /\ pc = "done"
    /\ previous # <<>>
    /\ DOMAIN entity_vdb # {}
    /\ DOMAIN relationships_vdb # {}
    /\ Calls("upsert_edge") # {}

C19_EmptyTables ==
    priority_manager = EmptyManager =>
        /\ pc # "key_error"
        /\ pc = "normalized" =>
              /\ \A r \in DOMAIN objs :
                    r[2] = "n" => /\ objs[r].priority = 999
                                  /\ objs[r].weight = Real(1, 1)
              /\ \A c \in DOMAIN extraction : \A edge_key \in RawEdgeKeys(c) :
                    Kept(c, edge_key)
              /\ \A r \in DOMAIN objs :
                    r[2] = "e" => objs[r].priority_score = Real(1, 1)

\* C20: a name or a relationship key whose mention list is empty in every
\* chunk does not make normalization, aggregation or merge raise an error
\* (the tables being the default ones).
C20_EmptyListsTolerated ==
    (EmptyInEveryChunk /\ priority_manager = DefaultManager) => pc # "error"

C22_TotalLookups ==
    /\ [](\A t \in Labels :
             /\ get_entity_priority(priority_manager, t) = SpecTier(t)
             /\ get_entity_weight(priority_manager, t) = SpecWeight(t))
    /\ [](pc = "normalized" =>
             \A r \in DOMAIN objs :
                 r[2] = "n" =>
                     /\ objs[r].priority = SpecTier(Get(objs[r], "entity_type", ""))
                     /\ objs[r].weight = SpecWeight(Get(objs[r], "entity_type", "")))
    /\ [][priority_manager' = priority_manager]_vars

\* normalization has looked up a label no table lists and a missing label
C22_Witness ==
    /\ pc = "normalized"
    /\ \E r, q \in DOMAIN objs :
          /\ r[2] = "n" /\ q[2] = "n"
          /\ Get(objs[r], "entity_type", "") = "vendor"
          /\ objs[r].priority = 999 /\ objs[r].weight = Real(1, 1)
          /\ "entity_type" \notin DOMAIN objs[q]
          /\ objs[q].priority = 999 /\ objs[q].weight = Real(1, 1)


\* C23: normalization drops no entity mention: the entity mapping of each
\* chunk keeps its names, in order, and under each name as many mentions in
\* the same order, each the raw mention with tier = TierOf(type) and
\* weight = WeightOf(type) added.
C23_NoMentionDropped ==
    pc = "normalized" =>
        /\ Len(chunk_results) = Len(extraction)
        /\ \A c \in DOMAIN extraction :
              LET raw == extraction[c].nodes
                  out == chunk_results[c].nodes
              IN  /\ Len(out) = Len(raw)
                  /\ \A k \in DOMAIN raw :
                        /\ out[k].key = raw[k].key
                        /\ Len(out[k].val) = Len(raw[k].val)
                        /\ \A i \in DOMAIN raw[k].val :
                              LET m == raw[k].val[i]
                                  v == objs[out[k].val[i]]
                                  t == Get(m, "entity_type", "")
                              IN  /\ DOMAIN v = DOMAIN m \cup {"priority", "weight"}
                                  /\ \A f \in DOMAIN m \ {"priority", "weight"} : v[f] = m[f]
                                  /\ v.priority = SpecTier(t)
                                  /\ v.weight = SpecWeight(t)

\* a normalized chunk with a name that has two mentions of different types
C23_Witness ==
    /\ pc = "normalized"
    /\ \E c \in DOMAIN extraction :
          /\ Len(chunk_results[c].nodes) = Len(extraction[c].nodes)
          /\ \E k \in DOMAIN extraction[c].nodes :
                /\ Len(chunk_results[c].nodes[k].val) = 2
                /\ Get(extraction[c].nodes[k].val[1], "entity_type", "")
                      # Get(extraction[c].nodes[k].val[2], "entity_type", "")


\* the admitted relationship mentions of the normalized result
AdmittedRefs == UNION {DictRefs(chunk_results[c].edges) : c \in DOMAIN chunk_results}

\* the raw mention a relationship reference was made from, and its base weight
RawOfRef(r) == extraction[r[1]].edges[r[3]].val[r[4]]
BaseWeight(r) == Get(RawOfRef(r), "weight", Real(1, 1))

\* the endpoint types normalization looked up for a relationship reference
SourceType(r) == FirstType(r[1], extraction[r[1]].edges[r[3]].key[1])
TargetType(r) == FirstType(r[1], extraction[r[1]].edges[r[3]].key[2])

\* replacing an endpoint type of the mention by one of at least its weight
\* gives a relationship weight of at least the one normalization wrote
RaisingNeverLowers(r) ==
    /\ \A s \in Labels :
          get_entity_weight(priority_manager, s)
                  >= get_entity_weight(priority_manager, SourceType(r))
              => calculate_relationship_weight(priority_manager, s, TargetType(r), BaseWeight(r))
                     >= objs[r].weight
    /\ \A t \in Labels :
          get_entity_weight(priority_manager, t)
                  >= get_entity_weight(priority_manager, TargetType(r))
              => calculate_relationship_weight(priority_manager, SourceType(r), t, BaseWeight(r))
                     >= objs[r].weight

\* C24 as stated: the relationship weight is monotonically increasing in each
\* endpoint weight for any fixed base weight: raising an endpoint weight never
\* lowers the weight normalization computed.
C24_Monotone == pc = "normalized" => \A r \in AdmittedRefs : RaisingNeverLowers(r)

\* C24: for a fixed base weight that is not negative, raising either endpoint
\* weight while the other stays fixed never lowers the relationship weight
\* normalization computed.
C24_MonotoneNonNegative ==
    pc = "normalized" =>
        \A r \in AdmittedRefs : BaseWeight(r) >= 0 => RaisingNeverLowers(r)

\* normalization has weighted a mention of non-negative base weight whose
\* source could be of a heavier type, and that type gives a higher weight
C24_Witness ==
    /\ pc = "normalized"
    /\ \E r \in AdmittedRefs :
          /\ BaseWeight(r) >= 0
          /\ \E s \in Labels :
                /\ get_entity_weight(priority_manager, s)
                       > get_entity_weight(priority_manager, SourceType(r))
                /\ calculate_relationship_weight(priority_manager, s, TargetType(r), BaseWeight(r))
                       > objs[r].weight


\* the place of a registered label in its tier's list
PlaceInTier(t) ==
    LET tier == priority_manager.priority_config[get_entity_priority(priority_manager, t)]
    IN  CHOOSE i \in DOMAIN tier : tier[i] = t

\* C25: the ordered entity types hold every registered label exactly once,
\* by ascending tier and, within a tier, in registration order; this list is
\* the type vocabulary the extraction runs with once normalization has
\* installed it.
C25_OrderedEntityTypes ==
    LET types == get_priority_entities(priority_manager)
        config == priority_manager.priority_config
    IN  /\ \A p \in DOMAIN config : \A t \in Range(config[p]) :
              Cardinality({i \in DOMAIN types : types[i] = t}) = 1
        /\ \A i \in DOMAIN types : \E p \in DOMAIN config : types[i] \in Range(config[p])
        /\ \A i, j \in DOMAIN types :
              i < j =>
                  \/ SpecTier(types[i]) < SpecTier(types[j])
                  \/ /\ SpecTier(types[i]) = SpecTier(types[j])
                     /\ PlaceInTier(types[i]) < PlaceInTier(types[j])
        /\ pc \in {"normalized", "failed", "done", "error"} => entity_types = types

\* normalization has run and the vocabulary is the seven labels by tier
C25_Witness ==
    /\ pc = "normalized"
    /\ entity_types = <<"device", "fault", "time", "cause", "measure", "person", "area">>
    /\ chunk_results # <<>>


\* C26: the noise filter holds on the merged graph: for every canonical
\* relationship whose two endpoints are both canonical entities of the batch,
\* the tiers of the two canonical entities differ by at most 1.
C26_NoiseFilterOnMergedGraph ==
    pc = "done" =>
        \A i \in DOMAIN relationships_data :
            \A a \in CanonicalOf(CanonicalKey(i)[1]), b \in CanonicalOf(CanonicalKey(i)[2]) :
                Abs(Get(CanonicalEntities[a], "priority", UnknownPriority)
                        - Get(CanonicalEntities[b], "priority", UnknownPriority)) <= 1


\* C27: within a batch, node upserts precede edge upserts: when a graph edge
\* is upserted, every canonical entity of the batch has already been upserted
\* as a graph node.
C27_NodesBeforeEdges ==
    (pc = "done" /\ clock = 1) =>
        \A i \in Calls("upsert_edge") :
            \A a \in DOMAIN entities_data :
                LET name == Get(CanonicalEntities[a], "entity_name", "")
                IN  name # "" => \E j \in NodeUpserts(name) : j < i


\* the chunk sequence of the batch in another order
ChunkOrders ==
    {p \in [DOMAIN extraction -> DOMAIN extraction] :
        \A c, d \in DOMAIN extraction : c # d => p[c] # p[d]}
Permuted(p) == [c \in DOMAIN extraction |-> extraction[p[c]]]

\* normalization and merge of a batch, against storages of its own
MergeOf(ex) ==
    LET out == ProcessResults(priority_manager, NewObjs(ex), NewResults(ex), 1)
    IN  merge_nodes_and_edges_with_priority(out.objs, out.processed_results, NoSink, 1)

\* the priority-bearing parts of a merge result: the canonical names with
\* their tiers, the canonical keys with their weights
PriorityParts(h, ed, rd) ==
    [entities |-> {<<Get(Deref(h, ed[i]), "entity_name", ""),
                     Get(Deref(h, ed[i]), "priority", UnknownPriority)>> : i \in DOMAIN ed},
     relationships |-> {<<Get(Deref(h, rd[i]), "src_id", ""),
                          Get(Deref(h, rd[i]), "tgt_id", ""),
                          Get(Deref(h, rd[i]), "weight", Real(1, 1))>> : i \in DOMAIN rd}]

\* C28: the merge result does not depend on the chunk order in its
\* priority-bearing parts: for every permutation of the chunk sequence the
\* canonical entity names, the tier of each, the canonical relationship keys
\* and the weight of each are those of the batch as given.
C28_ChunkOrderIndependent ==
    pc = "done" =>
        \A p \in ChunkOrders :
            LET out == MergeOf(Permuted(p))
            IN  /\ ~out.error
                /\ PriorityParts(out.objs, out.entities_data, out.relationships_data)
                       = PriorityParts(objs, entities_data, relationships_data)

\* a merged batch of two different chunks, a name mentioned in both with
\* different tiers, and a canonical relationship
C28_Witness ==
    /\ pc = "done"
    /\ Len(extraction) = 2
    /\ extraction[1] # extraction[2]
    /\ \E name \in BatchNames :
          /\ Len(RawMentions(1, name)) > 0 /\ Len(RawMentions(2, name)) > 0
          /\ SpecTier(FirstType(1, name)) # SpecTier(FirstType(2, name))
    /\ relationships_data # <<>>


\* the vector-index identifier of a canonical relationship
RelationId(i) ==
    compute_mdhash_id(CanonicalKey(i)[1] \o CanonicalKey(i)[2], "rel-")

\* C29: with an injective hash, two canonical relationships of different
\* (src_id, tgt_id) pairs never get the same vector-index identifier, so
\* every hand-off writes as many relationship documents as it upserts graph
\* edges.
C29_DistinctRelationIds ==
    pc = "done" =>
        /\ \A i, j \in DOMAIN relationships_data :
              CanonicalKey(i) # CanonicalKey(j) => RelationId(i) # RelationId(j)
        /\ \A i \in Calls("relationships_vdb.upsert") :
              Cardinality(sink_log[i].ids)
                  = Cardinality({CanonicalKey(k) : k \in DOMAIN relationships_data})
        /\ Cardinality(DOMAIN relationships_vdb) = Cardinality(DOMAIN graph_edges)


\* the names upserted as graph nodes in the same hand-off, right before call i
NodesBefore(i) ==
    {sink_log[j].node :
        j \in {k \in 1..(i - 1) : \A m \in k..(i - 1) : sink_log[m].op = "upsert_node"}}

\* C30: graph and entity vector index stay consistent: in every hand-off the
\* names upserted as graph nodes are the names written to the entity vector
\* index, and a canonical record with an empty or missing entity name is
\* written to neither.
C30_EntityStoresConsistent ==
    /\ \A i \in Calls("entity_vdb.upsert") :
          sink_log[i].ids = {compute_mdhash_id(n, "ent-") : n \in NodesBefore(i)}
    /\ \A j \in Calls("upsert_node") :
          \E i \in Calls("entity_vdb.upsert") : i > j /\ sink_log[j].node \in NodesBefore(i)
    /\ DOMAIN entity_vdb = {compute_mdhash_id(n, "ent-") : n \in DOMAIN graph_nodes}
    /\ \A id \in DOMAIN entity_vdb :
          entity_vdb[id].entity_name # "" /\ entity_vdb[id].entity_name \in DOMAIN graph_nodes
    /\ "" \notin DOMAIN graph_nodes
    /\ \A n \in DOMAIN graph_nodes : Get(graph_nodes[n], "entity_name", "") = n
    /\ pc = "done" =>
          \A a \in DOMAIN entities_data :
              LET name == Get(CanonicalEntities[a], "entity_name", "")
              IN  /\ name # "" => name \in DOMAIN graph_nodes
                  /\ name = "" =>
                        \A n \in DOMAIN graph_nodes : graph_nodes[n] # CanonicalEntities[a]

\* a hand-off of a named canonical entity and of one without a name
C30_Witness ==
    /\ pc = "done"
    /\ \E a, b \in DOMAIN entities_data :
          /\ Get(CanonicalEntities[a], "entity_name", "") # ""
          /\ Get(CanonicalEntities[a], "entity_name", "") \in DOMAIN graph_nodes
          /\ Get(CanonicalEntities[b], "entity_name", "") = ""
    /\ Calls("entity_vdb.upsert") # {}

====
